---- MODULE Spec2Model ----
(***************************************************************************)
(* Daily GMT/USDC price page (src/script.js): the incremental sync of the   *)
(* daily price series.  initializeApp, the midnight timeout, the 24 h       *)
(* interval and the "Refresh Now" button all run fetchAndStoreData, which   *)
(* fetches the range [START_DATE, now] in windows of batchSize days, merges *)
(* the new points into the series it was given and overwrites the           *)
(* localStorage slot.                                                       *)
(*                                                                          *)
(* Encoding.  A calendar day is an integer (START_DATE is day 1, day 0 is   *)
(* the day before it).  A JavaScript Date is an instant counted in hours    *)
(* since 00:00 UTC of day 0.  A price is an integer: the upstream's raw     *)
(* price counts units of 10^-7, a stored price (toFixed(6)) counts units of *)
(* 10^-6.  Day strings compare like the day numbers they stand for.         *)
(*                                                                          *)
(* JavaScript runs the handlers on one thread: a handler runs from one      *)
(* await to the next without interleaving, so each action below is one such *)
(* run.  The awaits are fetchKlines (line 153) and the 200 ms pause (177).  *)
(***************************************************************************)
EXTENDS Integers, Sequences, FiniteSets, TLC

\* ------------------------------------------------------------------ bounds

\* Last day the clock of the model reaches.
MaxDay == 3

\* Most points of a fetched sequence handed to the merge on its own.
MaxFetched == 2

\* ------------------------------------------------------- program constants

\* const START_DATE = '2026-01-01' (day 1 of the encoding).
START_DATE == 1

\* const batchSize = 1000, scaled to 2 days.
batchSize == 2

\* limit=1000 of the klines request: the most candles one response holds.
limit == batchSize

HoursPerDay == 24

\* A day in milliseconds, the unit of getTime().
MsPerDay == 86400000

\* ------------------------------------------------------------- environment

\* Browser time zones: the UTC offset in hours in the season of START_DATE
\* (std), the offset in the other season (alt), and the first local calendar
\* day of the other season (change).  UTC; America/New_York (EST -5, EDT -4);
\* Australia/Sydney (AEDT +11, AEST +10).  00:00 UTC of START_DATE is 19:00 of
\* day 0 in New York and 11:00 of day 1 in Sydney.
Zones ==
    { [name |-> "UTC",      std |-> 0,  alt |-> 0,  change |-> 0],
      [name |-> "New_York", std |-> -5, alt |-> -4, change |-> 1],
      [name |-> "Sydney",   std |-> 11, alt |-> 10, change |-> 2] }

\* Hours of the day at which a handler may read the clock.
Hours == {0, 23}

\* The raw open price of a day's candle, in units of 10^-7: fixed once the day
\* has begun.
OpenPrice(d) == IF d % 2 = 0 THEN 14 ELSE 15

\* Days a candle's openTime may fall on.
CandleDays == (START_DATE - 1) .. MaxDay

Procs == {"auto", "manual"}

VARIABLES
    tz,       \* the browser's time zone
    today,    \* the current UTC day
    app,      \* "loading" before initializeApp has run, then "running"
    store,    \* the series in localStorage[STORAGE_KEY]
    timer,    \* scheduleDailyFetch: "none", "timeout", "first", "interval"
    due,      \* the interval's next tick is due
    lastTick, \* the day of the scheduler's latest callback, 0 before the first
    cycles,   \* per caller, the fetchAndStoreData call in flight
    call      \* the latest call of a function exercised on its own

vars == <<tz, today, app, store, timer, due, lastTick, cycles, call>>

\* ----------------------------------------------------------------- dates

\* new Date(...).getTime() of 00:00 UTC of a day.
Midnight(day) == day * HoursPerDay

\* date.toISOString().split('T')[0]: the UTC calendar day of an instant.
UtcDay(t) == t \div HoursPerDay

\* The zone's UTC offset in force at an instant.
Offset(t) ==
    IF (t + tz.std) \div HoursPerDay >= tz.change THEN tz.alt ELSE tz.std

\* The instant at which the zone's wall clock shows local time w.
WallToUtc(w) ==
    IF w \div HoursPerDay >= tz.change THEN w - tz.alt ELSE w - tz.std

\* d.setDate(d.getDate() + k): k days later on the LOCAL calendar, at the
\* same local wall-clock time.
SetDate(t, k) == WallToUtc(t + Offset(t) + HoursPerDay * k)

\* ---------------------------------------------------------------- series

Point(d, p) == [date |-> d, price |-> p]

Dates(s) == { s[i].date : i \in 1..Len(s) }

\* Strictly ascending by date: sorted, and no date twice.
IsSeries(s) == \A i \in 1..(Len(s) - 1) : s[i].date < s[i + 1].date

Contains(s, x) == \E i \in 1..Len(s) : s[i] = x

\* parseFloat(x).toFixed(6): round to 6 fractional digits.
ToFixed6(raw) == (raw + 5) \div 10

RECURSIVE Insert(_, _)
Insert(s, x) ==
    IF s = << >> THEN << x >>
    ELSE IF s[Len(s)].date <= x.date THEN Append(s, x)
    ELSE Append(Insert(SubSeq(s, 1, Len(s) - 1), x), s[Len(s)])

\* Mutant: the merged array is left unsorted.
SortByDate_Unsorted(s) == s

\* allData.sort((a, b) => new Date(a.date) - new Date(b.date)): stable,
\* ascending by date.
RECURSIVE SortByDate(_)
SortByDate(s) ==
    IF s = << >> THEN << >>
    ELSE Insert(SortByDate(SubSeq(s, 1, Len(s) - 1)), s[Len(s)])

\* Mutant: nothing is filtered out.
removeDuplicates_KeepsAll(data) == data

\* Mutant: the last item of each date is kept.
RECURSIVE removeDuplicates_LastWins(_)
removeDuplicates_LastWins(data) ==
    IF data = << >> THEN << >>
    ELSE LET rest == SubSeq(data, 2, Len(data))
             item == data[1]
         IN  IF item.date \in Dates(rest)
             THEN removeDuplicates_LastWins(rest)
             ELSE << item >> \o removeDuplicates_LastWins(rest)

\* removeDuplicates: keep the first item of each date.
RECURSIVE removeDuplicates(_)
removeDuplicates(data) ==
    IF data = << >> THEN << >>
    ELSE LET front == SubSeq(data, 1, Len(data) - 1)
             item  == data[Len(data)]
         IN  IF item.date \in Dates(front)
             THEN removeDuplicates(front)
             ELSE Append(removeDuplicates(front), item)

\* Lines 91-97: concatenate, sort, remove duplicates.
Merge(existingData, newData) ==
    removeDuplicates(SortByDate(existingData \o newData))


\* ------------------------------------------------------- fetchHistoricalData

\* A candle of the upstream: [openTime, open, ...]; a daily candle opens at
\* 00:00 UTC of its day.
Candle(d, raw) == [openTime |-> Midnight(d), open |-> raw]

Candles == { Candle(d, OpenPrice(d)) : d \in CandleDays }

\* What a klines request can resolve to: any sequence of at most limit candles.
Responses == UNION { [1..n -> Candles] : n \in 0..limit }

\* Lines 132-134: the end of the window that starts at currentStart.
BatchEnd(currentStart, end) ==
    LET batchEnd == SetDate(currentStart, batchSize - 1)
    IN  IF batchEnd > end THEN end ELSE batchEnd

\* Lines 138-150: the UTC days the request covers, startTime being 00:00 of
\* the first and endTime 23:59:59.999 of the last.
WindowDays(currentStart, end) ==
    UtcDay(currentStart) .. UtcDay(BatchEnd(currentStart, end))

\* Mutant: the date is not checked against the dates already held.
Accepts_HeldDate(existingDates, dateStr) == dateStr >= START_DATE

\* Mutant: the date is only checked against the dates already held.
Accepts_AnyDate(existingDates, dateStr) == dateStr \notin existingDates

\* Line 166: the candle's date is new and not before START_DATE.
Accepts(existingDates, dateStr) ==
    dateStr \notin existingDates /\ dateStr >= START_DATE

\* Lines 156-173: klines.forEach over the candles of one response.
RECURSIVE ProcessCandles(_, _, _)
ProcessCandles(klines, newData, existingDates) ==
    IF klines = << >> THEN [newData |-> newData, existingDates |-> existingDates]
    ELSE LET before  == ProcessCandles(SubSeq(klines, 1, Len(klines) - 1),
                                       newData, existingDates)
             candle  == klines[Len(klines)]
             dateStr == UtcDay(candle.openTime)
         IN  IF Accepts(before.existingDates, dateStr)
             THEN [newData |-> Append(before.newData,
                                      Point(dateStr, ToFixed6(candle.open))),
                   existingDates |-> before.existingDates \cup {dateStr}]
             ELSE before

\* A response carries a candle for a date the run has emitted before: in an
\* earlier window (the date is in newData) or earlier in this response.
Repeats(klines, newData, existingDates) ==
    \/ \E i \in 1..Len(klines) : UtcDay(klines[i].openTime) \in Dates(newData)
    \/ \E i, j \in 1..Len(klines) :
          /\ i < j
          /\ klines[i].openTime = klines[j].openTime
          /\ Accepts(existingDates, UtcDay(klines[i].openTime))

\* The answers of an exchange that holds one candle for each day asked for, or
\* holds none yet.
ExchangeResponses(days) ==
    LET first == CHOOSE d \in days : \A e \in days : d <= e
        n     == IF Cardinality(days) > limit THEN limit ELSE Cardinality(days)
    IN  { << >>, [i \in 1..n |-> Candle(first + i - 1, OpenPrice(first + i - 1))] }

\* The response of an upstream that holds one candle for each day asked for.
IsComplete(klines, days) ==
    /\ Len(klines) = Cardinality(days)
    /\ \A i \in 1..Len(klines) :
          UtcDay(klines[i].openTime) =
              (CHOOSE d \in days : \A e \in days : d <= e) + i - 1

\* --------------------------------------------------------- fetchAndStoreData

\* The state of one call of fetchAndStoreData.  Its locals: existingData,
\* existingDates, newData, currentStart, end.  Its position pc: "request"
\* (awaiting fetchKlines), "pause" (awaiting the 200 ms timer), "idle" (no call
\* in flight).  status is the text of the last updateStatus, settled how the
\* promise of the call ended.  History kept for the properties: requests (the
\* klines requests issued), log (how each answered request ended), offered (the
\* days of the candles received), repeated (a candle was received for a date
\* this call had already emitted), overlapped (another call wrote the store
\* since this one loaded it).
IdleCycle ==
    [pc |-> "idle", kind |-> "none", existingData |-> << >>,
     existingDates |-> {}, newData |-> << >>, currentStart |-> 0, end |-> 0,
     requests |-> 0, log |-> << >>, offered |-> {}, repeated |-> FALSE,
     overlapped |-> FALSE,
     status |-> "none", settled |-> "none"]

\* Lines 77-88 and 119-129, up to the loop: the caller passes loadStoredData().
Entered(kind, hour) ==
    [pc |-> "loop", kind |-> kind, existingData |-> store,
     existingDates |-> Dates(store), newData |-> << >>,
     currentStart |-> Midnight(START_DATE),
     end |-> Midnight(today) + hour,
     requests |-> 0, log |-> << >>, offered |-> {}, repeated |-> FALSE,
     overlapped |-> FALSE,
     status |-> "Fetching data from Binance...", settled |-> "pending"]

\* Mutant: the window start stays where it is, and the same request is issued
\* again.
Advance_Stalled(c) ==
    [c EXCEPT !.requests = c.requests - 1,
              !.log = SubSeq(c.log, 1, Len(c.log) - 1)]

\* Line 184: move to the next batch.
Advance(c) == [c EXCEPT !.currentStart = SetDate(c.currentStart, batchSize)]

\* Lines 100-116: the persist step and the catch around the whole cycle.
\* setItem either stores the blob or throws and leaves the slot as it was;
\* either way the error handler returns normally, so the promise is fulfilled.
Settle(c, persistOk) ==
    [IdleCycle EXCEPT !.status = IF persistOk
                      THEN "Data fetched and stored successfully"
                      ELSE "Error fetching data",
            !.settled = "fulfilled"]

\* Mutant: a persist step that raises has already written the merged series.
LoopHead_TornWrite(c, persistOk) ==
    IF c.currentStart <= c.end
    THEN [cycle |-> [c EXCEPT !.pc = "request", !.requests = c.requests + 1],
          store |-> store]
    ELSE [cycle |-> Settle(c, persistOk),
          store |-> Merge(c.existingData, c.newData)]

\* Line 131, the loop test, and what follows it without an await: another
\* request (line 153), or the return of newData and lines 91-116.
LoopHead(c, persistOk) ==
    IF c.currentStart <= c.end
    THEN [cycle |-> [c EXCEPT !.pc = "request", !.requests = c.requests + 1],
          store |-> store]
    ELSE [cycle |-> Settle(c, persistOk),
          store |-> IF persistOk THEN Merge(c.existingData, c.newData) ELSE store]

\* Mutant: a cycle that ended with an error arms nothing.
TimerAfter_OnlyOnSuccess(kind, status) ==
    CASE status = "Error fetching data" -> timer
      [] kind = "init"    -> "timeout"
      [] kind = "timeout" -> "interval"
      [] OTHER            -> timer

\* Lines 64-71 and 357-362: what the caller does once the cycle has settled,
\* whatever its status: initializeApp arms the timeout, the timeout's callback
\* arms the interval.
TimerAfter(kind, status) ==
    CASE kind = "init"    -> "timeout"
      [] kind = "timeout" -> "interval"
      [] OTHER            -> timer

\* Mutant: the caller does not await the cycle and arms its timer at once.
Step_NotAwaited(p, c, persistOk, waiting) ==
    LET r == LoopHead(c, persistOk)
        wrote == r.cycle.pc = "idle" /\ persistOk
    IN  /\ store' = r.store
        /\ cycles' = [q \in Procs |->
                        IF q = p THEN r.cycle
                        ELSE IF wrote /\ cycles[q].pc # "idle"
                             THEN [cycles[q] EXCEPT !.overlapped = TRUE]
                             ELSE cycles[q]]
        /\ timer' = TimerAfter(c.kind, r.cycle.status)

\* One run of a handler of caller p that takes its cycle from c to the next
\* await or to the end; waiting is the timer's state while the cycle goes on.
Step(p, c, persistOk, waiting) ==
    LET r == LoopHead(c, persistOk)
        wrote == r.cycle.pc = "idle" /\ persistOk
    IN  /\ store' = r.store
        /\ cycles' = [q \in Procs |->
                        IF q = p THEN r.cycle
                        ELSE IF wrote /\ cycles[q].pc # "idle"
                             THEN [cycles[q] EXCEPT !.overlapped = TRUE]
                             ELSE cycles[q]]
        /\ timer' = IF r.cycle.pc = "idle"
                    THEN TimerAfter(c.kind, r.cycle.status)
                    ELSE waiting

\* ------------------------------------------------------ scheduleDailyFetch

\* Times of the day, in milliseconds since 00:00 UTC, at which the scheduler
\* may read the clock: midnight, 1 ms after it, 13:00 and 1 ms before the next.
TimesOfDay == {0, 1, 46800000, 86399999}

\* getTime() of 00:00 UTC of a day, in milliseconds since 00:00 UTC of day 0.
MsMidnight(day) == day * MsPerDay

\* Mutant: the day is not moved on before the time of day is cleared.
msUntilNext_SameDay(now) ==
    LET nextFetch == (now \div MsPerDay) * MsPerDay
    IN  nextFetch - now

\* Lines 348-353: setUTCDate(getUTCDate() + 1) keeps the time of day and moves
\* to the next UTC day, setUTCHours(0, 0, 0, 0) clears the time of day.
msUntilNext(now) ==
    LET nextDay   == now + MsPerDay
        nextFetch == (nextDay \div MsPerDay) * MsPerDay
    IN  nextFetch - now

\* ----------------------------------------------------------- loadStoredData

\* The text of a blob is a sequence of tokens: "[", then a date and a price
\* for each point, then "]".
Token(kind, n) == [kind |-> kind, n |-> n]

RECURSIVE Items(_)
Items(data) ==
    IF data = << >> THEN << >>
    ELSE Items(SubSeq(data, 1, Len(data) - 1))
             \o << Token("date", data[Len(data)].date),
                   Token("price", data[Len(data)].price) >>

\* JSON.stringify(uniqueData) of line 100.
JSONstringify(data) == << Token("[", 0) >> \o Items(data) \o << Token("]", 0) >>

RECURSIVE ParseItems(_)
ParseItems(toks) ==
    IF toks = << >> THEN [ok |-> TRUE, value |-> << >>]
    ELSE IF Len(toks) >= 2 /\ toks[1].kind = "date" /\ toks[2].kind = "price"
    THEN LET rest == ParseItems(SubSeq(toks, 3, Len(toks)))
         IN  [ok |-> rest.ok,
              value |-> IF rest.ok
                        THEN << Point(toks[1].n, toks[2].n) >> \o rest.value
                        ELSE << >>]
    ELSE [ok |-> FALSE, value |-> << >>]

\* JSON.parse(stored) of line 247: the array the text denotes, or a
\* SyntaxError (ok = FALSE) when the text is not well formed.
JSONparse(text) ==
    IF Len(text) >= 2 /\ text[1].kind = "[" /\ text[Len(text)].kind = "]"
    THEN ParseItems(SubSeq(text, 2, Len(text) - 1))
    ELSE [ok |-> FALSE, value |-> << >>]

\* What localStorage.getItem returns: null (present = FALSE) or a text.
Slot(present, text) == [present |-> present, text |-> text]

\* Mutant: no try/catch around the parse.
loadStoredData_NoCatch(stored) ==
    IF ~stored.present \/ stored.text = << >>
    THEN [raised |-> FALSE, value |-> << >>]
    ELSE LET parsed == JSONparse(stored.text)
         IN  [raised |-> ~parsed.ok, value |-> parsed.value]

\* Lines 244-252: null and the empty string are falsy and give []; a text is
\* parsed; whatever the parse throws is caught and gives [].
loadStoredData(stored) ==
    IF ~stored.present \/ stored.text = << >>
    THEN [raised |-> FALSE, value |-> << >>]
    ELSE LET parsed == JSONparse(stored.text)
         IN  IF parsed.ok
             THEN [raised |-> FALSE, value |-> parsed.value]
             ELSE [raised |-> FALSE, value |-> << >>]

\* ------------------------------------------------- functions on their own

\* A call of one function with its arguments (now; stored; existingData and
\* newData) and, once it has returned (done), its results (ms; raised and
\* value).
NoCall ==
    [fn |-> "none", done |-> FALSE, now |-> 0, stored |-> Slot(FALSE, << >>),
     existingData |-> << >>, newData |-> << >>,
     ms |-> 0, raised |-> FALSE, value |-> << >>]

\* ------------------------------------------------------------------ actions

\* The first load of the page, in a browser of any time zone.
InitAny ==
    /\ tz \in Zones
    /\ today = START_DATE
    /\ app = "loading"
    /\ store = << >>
    /\ timer = "none"
    /\ due = FALSE
    /\ lastTick = 0
    /\ cycles = [p \in Procs |-> IdleCycle]
    /\ call = NoCall

\* The first load of the page in a browser whose zone is UTC.
Init == InitAny /\ tz.name = "UTC"

\* Mutant: a series whose last date is today is fetched again.
NeedsFetch_OrEqual(existingData) ==
    IF Len(existingData) > 0
    THEN existingData[Len(existingData)].date <= today
    ELSE TRUE

\* Lines 55-61 of initializeApp.
NeedsFetch(existingData) ==
    IF Len(existingData) > 0
    THEN LET lastStoredDate == existingData[Len(existingData)].date
         IN  lastStoredDate < today
    ELSE TRUE

\* initializeApp (lines 48-75), up to its first await or, without a fetch,
\* to the end.
InitializeApp ==
    /\ app = "loading"
    /\ app' = "running"
    /\ IF NeedsFetch(store)
       THEN \E hour \in Hours, persistOk \in BOOLEAN :
                Step("auto", Entered("init", hour), persistOk, timer)
       ELSE /\ timer' = "timeout"
            /\ UNCHANGED <<store, cycles>>
    /\ UNCHANGED <<call, tz, today, due, lastTick>>

\* fetchKlines resolves (lines 153-177): the candles are processed and the
\* 200 ms pause begins.
RespondOk(p, answers) ==
    /\ cycles[p].pc = "request"
    /\ \E klines \in answers :
         LET c == cycles[p]
             r == ProcessCandles(klines, c.newData, c.existingDates)
         IN  cycles' = [cycles EXCEPT ![p] =
                 [c EXCEPT !.pc = "pause",
                           !.newData = r.newData,
                           !.existingDates = r.existingDates,
                           !.log = Append(c.log,
                               IF IsComplete(klines, WindowDays(c.currentStart, c.end))
                               THEN "complete" ELSE "partial"),
                           !.offered = c.offered \cup
                               { UtcDay(klines[i].openTime) : i \in 1..Len(klines) },
                           !.repeated = c.repeated \/
                               Repeats(klines, c.newData, c.existingDates)]]
    /\ UNCHANGED <<call, tz, today, app, store, timer, due, lastTick>>

\* Mutant: no catch inside the loop, so a failed request ends the cycle with
\* an error.
RespondFail_Aborts(p) ==
    /\ cycles[p].pc = "request"
    /\ cycles' = [cycles EXCEPT ![p] = Settle(cycles[p], FALSE)]
    /\ timer' = TimerAfter(cycles[p].kind, "Error fetching data")
    /\ UNCHANGED <<call, tz, today, app, store, due, lastTick>>

\* fetchKlines rejects (fetch fails or the status is not ok): the catch of
\* line 179 logs it and the loop goes on at line 184.
RespondFail(p) ==
    /\ cycles[p].pc = "request"
    /\ \E persistOk \in BOOLEAN :
         Step(p, Advance([cycles[p] EXCEPT !.log = Append(@, "failed")]),
              persistOk, timer)
    /\ UNCHANGED <<call, tz, today, app, due, lastTick>>

\* The 200 ms pause of line 177 ends; the loop goes on at line 184.
Pause(p) ==
    /\ cycles[p].pc = "pause"
    /\ \E persistOk \in BOOLEAN : Step(p, Advance(cycles[p]), persistOk, timer)
    /\ UNCHANGED <<call, tz, today, app, due, lastTick>>

\* A UTC midnight passes with no timeout pending.  The interval ticks once in
\* every 24 hours, so its tick falls due.
DayPasses ==
    /\ today < MaxDay
    /\ timer # "timeout"
    /\ ~due
    /\ today' = today + 1
    /\ due' = (timer = "interval")
    /\ UNCHANGED <<call, tz, app, store, timer, lastTick, cycles>>

\* The timeout of scheduleDailyFetch (lines 356-357) fires at the next UTC
\* midnight and starts the first scheduled cycle.
TimeoutFires ==
    /\ timer = "timeout"
    /\ today < MaxDay
    /\ today' = today + 1
    /\ lastTick' = today + 1
    /\ \E persistOk \in BOOLEAN :
         Step("auto", [Entered("timeout", 0) EXCEPT !.end = Midnight(today + 1)],
              persistOk, "first")
    /\ UNCHANGED <<call, tz, app, due>>

\* A tick of the interval (lines 360-362).  A scheduled cycle is taken to end
\* within the 24 hours before the next tick.
IntervalFires ==
    /\ timer = "interval"
    /\ due
    /\ cycles["auto"].pc = "idle"
    /\ due' = FALSE
    /\ lastTick' = today
    /\ \E hour \in Hours, persistOk \in BOOLEAN :
         Step("auto", Entered("interval", hour), persistOk, timer)
    /\ UNCHANGED <<call, tz, today, app>>

\* refreshData (lines 368-381): the button is disabled while it runs.
RefreshData ==
    /\ app = "running"
    /\ cycles["manual"].pc = "idle"
    /\ \E hour \in Hours, persistOk \in BOOLEAN :
         Step("manual", Entered("refresh", hour), persistOk, timer)
    /\ UNCHANGED <<call, tz, today, app, due, lastTick>>

\* The page is reloaded: every handler and timer of the old page is gone,
\* localStorage stays.
Reload ==
    /\ app = "running"
    /\ app' = "loading"
    /\ timer' = "none"
    /\ due' = FALSE
    /\ lastTick' = 0
    /\ cycles' = [p \in Procs |-> IdleCycle]
    /\ UNCHANGED <<call, tz, today, store>>

Next ==
    \/ InitializeApp
    \/ \E p \in Procs :
          RespondOk(p, ExchangeResponses(WindowDays(cycles[p].currentStart,
                                                    cycles[p].end)))
    \/ \E p \in Procs : RespondFail(p)
    \/ \E p \in Procs : Pause(p)
    \/ DayPasses
    \/ TimeoutFires
    \/ IntervalFires
    \/ RefreshData
    \/ Reload

\* The whole page in a UTC browser, against an exchange that answers with the
\* candles asked for: the scheduler's cycles and the manual refresh may overlap.
Spec == Init /\ [][Next]_vars

\* The page without the refresh button, in a browser of any zone, against an
\* upstream that may answer a request with the candles of any days at all.
NextAny ==
    \/ InitializeApp
    \/ RespondOk("auto", Responses)
    \/ RespondFail("auto")
    \/ Pause("auto")
    \/ DayPasses
    \/ TimeoutFires
    \/ IntervalFires
    \/ Reload

SpecAny == InitAny /\ [][NextAny]_vars


\* The page left open with nobody at the button: requests are answered, pauses
\* end, midnights pass and armed timers fire.
NextOpen ==
    \/ InitializeApp
    \/ RespondOk("auto", ExchangeResponses(WindowDays(cycles["auto"].currentStart,
                                                      cycles["auto"].end)))
    \/ RespondFail("auto")
    \/ Pause("auto")
    \/ DayPasses
    \/ TimeoutFires
    \/ IntervalFires

Answered ==
    \/ RespondOk("auto", ExchangeResponses(WindowDays(cycles["auto"].currentStart,
                                                      cycles["auto"].end)))
    \/ RespondFail("auto")

FairSpec ==
    /\ InitAny
    /\ [][NextOpen]_vars
    /\ WF_vars(InitializeApp)
    /\ WF_vars(Answered)
    /\ WF_vars(Pause("auto"))
    /\ WF_vars(DayPasses)
    /\ WF_vars(TimeoutFires)
    /\ WF_vars(IntervalFires)


\* Raw prices, in units of 10^-7, of the points handed to functions called on
\* their own: one rounds down and one rounds up.
RawPrices == {14, 15}

StoredPoints ==
    { Point(d, ToFixed6(raw)) : d \in START_DATE..MaxDay, raw \in RawPrices }

\* Every series over the days of the model: ascending, one point per date.
AllSeries ==
    { s \in UNION { [1..n -> StoredPoints] : n \in 0..(MaxDay - START_DATE + 1) } :
        IsSeries(s) }

\* Every sequence of at most MaxFetched points, in any order, dates repeated
\* or not.
Fetched == UNION { [1..n -> StoredPoints] : n \in 0..MaxFetched }

\* What the slot may hold: nothing, or a saved series cut off after any number
\* of tokens (none: the empty string; all: the blob as it was saved).
Slots ==
    { Slot(FALSE, << >>) } \cup
    UNION { { Slot(TRUE, SubSeq(JSONstringify(s), 1, k)) :
                k \in 0..Len(JSONstringify(s)) } : s \in AllSeries }

Calls ==
    { [NoCall EXCEPT !.fn = "scheduleDailyFetch", !.now = MsMidnight(day) + t] :
        day \in START_DATE..MaxDay, t \in TimesOfDay }
    \cup { [NoCall EXCEPT !.fn = "loadStoredData", !.stored = stored] :
             stored \in Slots }
    \cup { [NoCall EXCEPT !.fn = "merge", !.existingData = S, !.newData = F] :
             S \in AllSeries, F \in Fetched }

\* A function is about to be called on arguments of the sets above.
InitCalls ==
    /\ tz \in Zones
    /\ tz.name = "UTC"
    /\ today = START_DATE
    /\ app = "loading"
    /\ store = << >>
    /\ timer = "none"
    /\ due = FALSE
    /\ lastTick = 0
    /\ cycles = [p \in Procs |-> IdleCycle]
    /\ call \in Calls

\* scheduleDailyFetch computes its delay (lines 348-353).
CallScheduleDailyFetch ==
    /\ call.fn = "scheduleDailyFetch"
    /\ ~call.done
    /\ call' = [call EXCEPT !.done = TRUE, !.ms = msUntilNext(call.now)]
    /\ UNCHANGED <<tz, today, app, store, timer, due, lastTick, cycles>>

\* loadStoredData returns (lines 244-252).
CallLoadStoredData ==
    /\ call.fn = "loadStoredData"
    /\ ~call.done
    /\ LET r == loadStoredData(call.stored)
       IN  call' = [call EXCEPT !.done = TRUE, !.raised = r.raised,
                                !.value = r.value]
    /\ UNCHANGED <<tz, today, app, store, timer, due, lastTick, cycles>>

\* Lines 91-97 of fetchAndStoreData produce uniqueData.
CallMerge ==
    /\ call.fn = "merge"
    /\ ~call.done
    /\ call' = [call EXCEPT !.done = TRUE,
                            !.value = Merge(call.existingData, call.newData)]
    /\ UNCHANGED <<tz, today, app, store, timer, due, lastTick, cycles>>

NextCalls ==
    \/ CallScheduleDailyFetch
    \/ CallLoadStoredData
    \/ CallMerge

\* The scheduler's delay, the load of the slot and the merge, each applied on
\* its own to every argument of the bounded sets.
SpecCalls == InitCalls /\ [][NextCalls]_vars

\* --------------------------------------------------------------- properties

Stored == "Data fetched and stored successfully"
Failed == "Error fetching data"

InFlight(p) == cycles[p].pc # "idle"

\* Caller p's cycle ends in this step: fetchHistoricalData has returned and
\* lines 91-116 have run.
Settles(p) ==
    /\ cycles[p].pc # "idle"
    /\ cycles'[p].pc = "idle"
    /\ cycles'[p].status # "none"

\* C1: the series in the store, and the series any cycle in flight would write
\* from what it loaded and has fetched so far, holds at most one point per
\* date and is ascending by date.
C1_StoredSeriesOrdered ==
    /\ IsSeries(store)
    /\ \A p \in Procs :
         InFlight(p) => IsSeries(Merge(cycles[p].existingData, cycles[p].newData))

\* A cycle was written, and a cycle that loaded a series with a gap has
\* fetched a point that belongs before the last point it loaded.
C1_Witness ==
    /\ store # << >>
    /\ \E p \in Procs :
         /\ InFlight(p)
         /\ cycles[p].existingData # << >>
         /\ cycles[p].newData # << >>
         /\ cycles[p].newData[1].date <
                cycles[p].existingData[Len(cycles[p].existingData)].date

\* C2: append-only store: a point in the store before a save is in the store,
\* with the same price, after it.
C2_AppendOnly ==
    [][\A i \in 1..Len(store) : Contains(store', store[i])]_vars


\* The calendar days of the range [startDate, endDate] of caller p's cycle.
RangeDays(p) == START_DATE .. UtcDay(cycles[p].end)

\* ceil(n / batchSize).
WindowCount(n) == (n + batchSize - 1) \div batchSize

\* C3: a cycle in which no request failed and every answer held one candle for
\* each day of the requested window ends, when it persists, with every day from
\* START_DATE to today in the store, and its fetch has emitted exactly the days
\* of the range that were not in the series it loaded.
C3_CompleteCycleCoversRange ==
    [][\A p \in Procs :
         ( /\ Settles(p)
           /\ cycles[p].pc = "pause"
           /\ cycles'[p].status = Stored
           /\ \A i \in 1..Len(cycles[p].log) : cycles[p].log[i] = "complete" )
         => /\ RangeDays(p) \subseteq Dates(store')
            /\ Dates(cycles[p].newData) =
                   RangeDays(p) \ Dates(cycles[p].existingData)]_vars

\* Caller p's request fails in this step: the loop goes on to the next request
\* or, after the last window, the cycle ends.
FailsRequest(p) ==
    /\ cycles[p].pc = "request"
    /\ \/ cycles'[p].pc = "request" /\ cycles'[p].requests = cycles[p].requests + 1
       \/ cycles'[p].pc = "idle" /\ cycles'[p].status # "none"

\* C4: a failed request does not abort the fetch.  After it the next window,
\* if the range holds one, is requested with the points fetched so far kept;
\* after the last window the points fetched are what is merged and stored.  The
\* points fetched only grow during a cycle, and every day a successful answer
\* has carried is, unless it lies before START_DATE, in the series loaded or
\* among the points fetched.
C4_FailureDoesNotAbort ==
    /\ [](\A p \in Procs : \A d \in cycles[p].offered :
            d >= START_DATE =>
                d \in Dates(cycles[p].existingData) \cup Dates(cycles[p].newData))
    /\ [][\A p \in Procs :
            /\ FailsRequest(p) =>
                 LET next == SetDate(cycles[p].currentStart, batchSize)
                 IN  IF next <= cycles[p].end
                     THEN /\ cycles'[p].pc = "request"
                          /\ cycles'[p].currentStart = next
                          /\ cycles'[p].end = cycles[p].end
                          /\ cycles'[p].newData = cycles[p].newData
                     ELSE /\ cycles'[p].pc = "idle"
                          /\ cycles'[p].status = Stored =>
                               \A i \in 1..Len(cycles[p].newData) :
                                   Contains(store', cycles[p].newData[i])
            /\ (InFlight(p) /\ cycles'[p].pc # "idle") =>
                 /\ Len(cycles[p].newData) <= Len(cycles'[p].newData)
                 /\ SubSeq(cycles'[p].newData, 1, Len(cycles[p].newData))
                        = cycles[p].newData]_vars

\* The first request of a cycle failed, the second was answered in full, and
\* its points have been fetched.
C4_Witness ==
    \E p \in Procs :
        /\ cycles[p].log = << "failed", "complete" >>
        /\ cycles[p].newData # << >>

\* C5: the step in which a cycle's persist step raises leaves the store as it
\* was, which is the series the cycle loaded at its start unless an overlapping
\* cycle has written the store in between.
C5_FailedPersistKeepsStore ==
    [][\A p \in Procs :
         (Settles(p) /\ cycles'[p].status = Failed)
         => /\ store' = store
            /\ ~cycles[p].overlapped => store' = cycles[p].existingData]_vars

\* A cycle's persist step has raised with a series in the store and points
\* fetched or not.
C5_Witness ==
    /\ store # << >>
    /\ \E p \in Procs : cycles[p].pc = "idle" /\ cycles[p].status = Failed

\* C6: a cycle that ended with an error has rejected the promise its caller
\* awaits.
C6_ErrorPropagates ==
    \A p \in Procs : cycles[p].status = Failed => cycles[p].settled = "rejected"

\* C7: initializeApp starts a fetch cycle exactly when the store is empty or
\* its last date is before today; when it starts none, no request is issued and
\* the store is not written.
C7_InitFetchesIffStale ==
    [][(app = "loading" /\ app' = "running")
       => LET stale == \/ store = << >>
                       \/ store[Len(store)].date < today
          IN  /\ stale <=> cycles'["auto"].status # "none"
              /\ ~stale => /\ cycles' = cycles
                           /\ store' = store
                           /\ cycles'["auto"].requests = 0]_vars

\* initializeApp has run on a store whose last date is today, and no cycle
\* was started.
C7_Witness ==
    /\ app = "running"
    /\ timer = "timeout"
    /\ cycles["auto"].status = "none"
    /\ store # << >>
    /\ store[Len(store)].date = today

\* C8: no point fetched, and no point in the store, has a date before
\* START_DATE.
C8_NoDateBeforeStart ==
    /\ \A i \in 1..Len(store) : store[i].date >= START_DATE
    /\ \A p \in Procs : \A i \in 1..Len(cycles[p].newData) :
           cycles[p].newData[i].date >= START_DATE

\* An answer has carried a candle of the day before START_DATE and has been
\* processed.
C8_Witness ==
    \E p \in Procs :
        /\ cycles[p].pc = "pause"
        /\ (START_DATE - 1) \in cycles[p].offered

\* C9: a cycle over a range of n calendar days has issued ceil(n / batchSize)
\* requests when its fetch returns.
C9_RequestCount ==
    [][\A p \in Procs :
         Settles(p) =>
             cycles[p].requests = WindowCount(Cardinality(RangeDays(p)))]_vars

\* C10: the scheduler keeps firing.  An armed timeout runs its callback at the
\* next midnight; the first scheduled cycle ends and arms the interval; the
\* interval, whatever the status of the cycle before, runs its callback on the
\* next day.  (The clock of the model stops at MaxDay.)
C10_SchedulerKeepsFiring ==
    /\ \A d \in START_DATE..(MaxDay - 1) :
           (timer = "timeout" /\ today = d) ~> (lastTick = d + 1)
    /\ (timer = "first") ~> (timer = "interval")
    /\ \A d \in START_DATE..(MaxDay - 1) :
           (timer = "interval" /\ today = d) ~> (lastTick = d + 1)

\* The interval has ticked on the day after the timeout fired and has started
\* a cycle.
C10_Witness ==
    /\ timer = "interval"
    /\ lastTick = today
    /\ lastTick >= START_DATE + 2
    /\ cycles["auto"].pc = "request"
    /\ cycles["auto"].kind = "interval"

\* C11: the delay scheduleDailyFetch computes at an instant now is the time in
\* milliseconds from now to the first UTC midnight strictly after now: it is
\* positive and at most a day, now plus the delay is a midnight, it is a whole
\* day when now is a midnight, and it is 39,600,000 at 13:00 UTC of START_DATE.
C11_DelayToNextMidnight ==
    (call.fn = "scheduleDailyFetch" /\ call.done) =>
        /\ call.ms > 0
        /\ call.ms <= 86400000
        /\ (call.now + call.ms) % MsPerDay = 0
        /\ call.now % MsPerDay = 0 => call.ms = 86400000
        /\ call.now = MsMidnight(START_DATE) + 46800000 => call.ms = 39600000

\* The delay was computed at 13:00 UTC of START_DATE.
C11_Witness ==
    /\ call.fn = "scheduleDailyFetch"
    /\ call.done
    /\ call.now = MsMidnight(START_DATE) + 46800000
    /\ call.ms = 39600000

\* The slot holds nothing, or a text that JSON.parse rejects.
Unparseable(stored) == ~stored.present \/ ~JSONparse(stored.text).ok

\* C12: loadStoredData never raises; on a slot that is absent or cannot be
\* parsed it returns the empty series, with which the caller proceeds as on a
\* first run: a fetch is needed and no date is excluded from it.
C12_LoadNeverRaises ==
    (call.fn = "loadStoredData" /\ call.done) =>
        /\ ~call.raised
        /\ Unparseable(call.stored) =>
             /\ call.value = << >>
             /\ NeedsFetch(call.value)
             /\ Dates(call.value) = {}

\* loadStoredData has returned from a slot that holds a saved series cut off
\* in the middle.
C12_Witness ==
    /\ call.fn = "loadStoredData"
    /\ call.done
    /\ call.stored.present
    /\ Len(call.stored.text) > 2
    /\ ~JSONparse(call.stored.text).ok
    /\ call.value = << >>

\* C13: the merge is idempotent: merging the fetched sequence into the result
\* of merging it into a series gives that result again.
C13_MergeIdempotent ==
    (call.fn = "merge" /\ call.done) =>
        Merge(call.value, call.newData) = call.value

\* A fetched sequence that holds a new date, and a date twice, was merged into
\* a series.
C13_Witness ==
    /\ call.fn = "merge"
    /\ call.done
    /\ call.existingData # << >>
    /\ Len(call.newData) = 2
    /\ call.newData[1].date = call.newData[2].date
    /\ call.newData[1].date \notin Dates(call.existingData)
    /\ Len(call.value) = Len(call.existingData) + 1

\* The first item of a date in a sequence.
FirstOf(data, date) ==
    data[CHOOSE i \in 1..Len(data) :
             /\ data[i].date = date
             /\ \A j \in 1..(i - 1) : data[j].date # date]

\* C14: first wins: the merged series holds, for each date, the point that
\* comes first in the concatenation of the existing series and the incoming
\* points, so every point of the existing series is in it with its price.
C14_MergeFirstWins ==
    (call.fn = "merge" /\ call.done) =>
        /\ \A i \in 1..Len(call.value) :
             call.value[i] =
                 FirstOf(call.existingData \o call.newData, call.value[i].date)
        /\ \A i \in 1..Len(call.existingData) :
             Contains(call.value, call.existingData[i])

\* An incoming point has the date of an existing point and another price.
C14_Witness ==
    /\ call.fn = "merge"
    /\ call.done
    /\ \E i \in 1..Len(call.existingData), j \in 1..Len(call.newData) :
         /\ call.existingData[i].date = call.newData[j].date
         /\ call.existingData[i].price # call.newData[j].price

\* C15: within one run of fetchHistoricalData no date is emitted twice and no
\* date of the exclusion set the caller supplied (the dates of the series it
\* loaded) is emitted, whatever days the candles received are of.
C15_NoDateEmittedTwice ==
    \A p \in Procs :
        InFlight(p) =>
            /\ \A i, j \in 1..Len(cycles[p].newData) :
                   i # j => cycles[p].newData[i].date # cycles[p].newData[j].date
            /\ Dates(cycles[p].newData) \cap Dates(cycles[p].existingData) = {}

\* A run has received a candle of a date of the series loaded, and a candle of
\* a date it had emitted before, and has emitted a point.
C15_Witness ==
    \E p \in Procs :
        /\ cycles[p].pc = "pause"
        /\ cycles[p].repeated
        /\ cycles[p].offered \cap Dates(cycles[p].existingData) # {}
        /\ cycles[p].newData # << >>

\* The UTC days of the request caller p's cycle has issued last.
Window(c) == WindowDays(c.currentStart, c.end)

FirstDay(days) == CHOOSE d \in days : \A e \in days : d <= e
LastDay(days)  == CHOOSE d \in days : \A e \in days : d >= e

\* Caller p's cycle issues its first request in this step.
FirstRequest(p) == cycles[p].pc = "idle" /\ cycles'[p].pc = "request"

\* Caller p's cycle issues another request in this step.
NextRequest(p) ==
    /\ InFlight(p)
    /\ cycles'[p].pc = "request"
    /\ cycles'[p].requests = cycles[p].requests + 1

\* C16: the windows a run requests partition the range: the first starts at
\* START_DATE, each spans at least one and at most batchSize days, each next
\* one starts on the day after the one before ends, and the last ends on the
\* day of endDate.
C16_WindowsPartitionRange ==
    [][\A p \in Procs :
         /\ FirstRequest(p) =>
              /\ Window(cycles'[p]) # {}
              /\ FirstDay(Window(cycles'[p])) = START_DATE
              /\ Cardinality(Window(cycles'[p])) <= batchSize
         /\ NextRequest(p) =>
              /\ Window(cycles'[p]) # {}
              /\ FirstDay(Window(cycles'[p])) = LastDay(Window(cycles[p])) + 1
              /\ Cardinality(Window(cycles'[p])) <= batchSize
         /\ Settles(p) =>
              LastDay(Window(cycles[p])) = UtcDay(cycles[p].end)]_vars

\* C17: a run issues a request after its first only when the 200 ms pause
\* has elapsed since the request before.
C17_PauseBetweenRequests ==
    [][\A p \in Procs : NextRequest(p) => cycles[p].pc = "pause"]_vars

\* C18: every fetch cycle that starts finishes: the window start moves forward
\* with every request after the first, and a cycle in flight ends with the
\* series persisted or with the error status.
C18_CycleTerminates ==
    /\ [][\A p \in Procs :
            NextRequest(p) => cycles'[p].currentStart > cycles[p].currentStart]_vars
    /\ InFlight("auto") ~>
           /\ cycles["auto"].pc = "idle"
           /\ cycles["auto"].status \in {Stored, Failed}

\* The scheduled cycle started on the last day of the model, whose range takes
\* two windows, has ended.
C18_Witness ==
    /\ today = MaxDay
    /\ lastTick = today
    /\ cycles["auto"].pc = "idle"
    /\ cycles["auto"].status \in {Stored, Failed}

\* C19: while the cycle initializeApp started is in flight no timer is armed,
\* and while the first scheduled cycle is in flight the interval is not armed;
\* the timeout is armed in the step that ends initializeApp's cycle (or by
\* initializeApp itself when it fetches nothing), the interval in the step
\* that ends the first scheduled cycle; and no scheduled callback runs while
\* initializeApp's cycle is in flight.
C19_ArmedAfterCycle ==
    /\ [](InFlight("auto") =>
            /\ cycles["auto"].kind = "init" => timer = "none"
            /\ cycles["auto"].kind = "timeout" => timer = "first")
    /\ [][/\ (timer # "timeout" /\ timer' = "timeout") =>
               /\ ~InFlight("auto")'
               /\ \/ cycles["auto"].kind = "init" /\ Settles("auto")
                  \/ app = "loading" /\ ~NeedsFetch(store)
          /\ (timer # "interval" /\ timer' = "interval") =>
               cycles["auto"].kind = "timeout" /\ Settles("auto")
          /\ (lastTick' # lastTick /\ lastTick' # 0) =>
               ~(InFlight("auto") /\ cycles["auto"].kind = "init")]_vars

\* The first scheduled cycle is in flight, on the day after initializeApp's
\* cycle ended and armed the timeout.
C19_Witness ==
    /\ timer = "first"
    /\ cycles["auto"].kind = "timeout"
    /\ cycles["auto"].pc = "pause"
    /\ store # << >>

====
